---- MODULE Spec2Model ----
(***************************************************************************)
(* Model of the resource snapshot of src/src/api/monitor.rs: the           *)
(* SysResources struct, its CPU record, the full load, the reload and the  *)
(* blocking CPU-usage sampler, over a nondeterministic sysinfo probe.      *)
(*                                                                         *)
(* Numbers: cpu_usage (f32) and frequency (u64 as f64, exact below 2^53)   *)
(* are only ever copied, so they are integers here.  boot_time and uptime  *)
(* are u64; they are kept as four 16-bit limbs, most significant first,    *)
(* so that the `as i64` cast of the time accessors keeps its width.        *)
(***************************************************************************)
EXTENDS Integers, Sequences, FiniteSets, TLC

\* Largest number of logical CPUs the probe reports.
MaxCpus == 2
\* Largest amount of memory (in abstract byte units) the probe reports.
MaxMem == 2

VARIABLES
    available_memory,   \* SysResources.available_memory
    used_memory,        \* SysResources.used_memory
    total_memory,       \* SysResources.total_memory
    boot_time,          \* SysResources.boot_time (u64, limbs)
    uptime,             \* SysResources.uptime (u64, limbs)
    cpu,                \* SysResources.cpu (aggregate CPU record, owns its children)
    num_of_processes,   \* SysResources.num_of_processes
    system,             \* SysResources.system: what the sysinfo handle caches
    status,             \* "unloaded" | "loaded" (a load() has returned) | "panicked" (the thread unwound)
    pc,                 \* "idle" | "load_cpu_info" | "reload_cpu_info" | "sleep": position inside load / reload / get_cpu_usage
    op,                 \* the public operation running or last run
    calls,              \* probe refreshes, sleeps and global-usage reads of op, in program order
    ret                 \* what the last completed operation returned

vars == <<available_memory, used_memory, total_memory, boot_time, uptime, cpu,
          num_of_processes, system, status, pc, op, calls, ret>>

snapshot == <<available_memory, used_memory, total_memory, boot_time, uptime, cpu,
              num_of_processes>>

(***************************************************************************)
(* Values                                                                  *)
(***************************************************************************)
Unit == [kind |-> "unit"]
F32(x) == [kind |-> "f32", val |-> x]
Some(x) == [kind |-> "some", val |-> x]
None == [kind |-> "none"]

unwrap_or(opt, default) == IF opt.kind = "some" THEN opt.val ELSE default

\* u64 values as limbs <<bits 63..48, 47..32, 31..16, 15..0>>.
TS_ZERO == <<0, 0, 0, 0>>                         \* 0
TS_HOUR == <<0, 0, 0, 3600>>                      \* 3600
TS_2023 == <<0, 0, 25939, 61696>>                 \* 1_700_000_000
TS_MAX_SECS == <<0, 1911, 39434, 27519>>          \* 8_210_266_876_799 = 262142-12-31T23:59:59
TS_PAST_MAX == <<0, 1911, 39434, 27520>>          \* 8_210_266_876_800
TS_I64_MAX == <<32767, 65535, 65535, 65535>>      \* 2^63 - 1
TS_I64_MIN == <<32768, 0, 0, 0>>                  \* 2^63, which `as i64` makes i64::MIN
TS_MINUS_ONE == <<65535, 65535, 65535, 65535>>    \* u64::MAX, which `as i64` makes -1
TS_MIN_SECS == <<65535, 63595, 29453, 60928>>     \* two's complement of -8_334_601_228_800 = -262143-01-01T00:00:00

LexLE(a, b) ==
    \/ a[1] < b[1]
    \/ a[1] = b[1] /\ a[2] < b[2]
    \/ a[1] = b[1] /\ a[2] = b[2] /\ a[3] < b[3]
    \/ a[1] = b[1] /\ a[2] = b[2] /\ a[3] = b[3] /\ a[4] <= b[4]

(***************************************************************************)
(* The probe: sysinfo::System and the readings it can report               *)
(***************************************************************************)
NameTable == << <<"cpu0", "cpu1", "cpu2", "cpu3">>, <<"core0", "core1", "core2", "core3">> >>
VendorTable == <<"GenuineIntel", "AuthenticAMD">>
BrandTable == <<"Intel Core i7", "AMD Ryzen 7 5700">>

\* One sysinfo::Cpu: the i-th logical CPU of hardware identity g.
RawCpu(g, i, usage, freq) ==
    [name |-> NameTable[g][i], vendor_id |-> VendorTable[g], brand |-> BrandTable[g],
     cpu_usage |-> usage, frequency |-> freq]

\* total >= used and total >= available in every reading.
MemReadings ==
    {m \in [total : 1..MaxMem, used : 0..MaxMem, available : 0..MaxMem] :
        m.used <= m.total /\ m.available <= m.total}

\* What the probe may report where the hardware identity, the CPU count and
\* the installed memory vary and the CPU figures do not.
UStatic ==
    [idents |-> {1, 2}, counts |-> 0..MaxCpus, usages |-> {50}, freqs |-> {3000},
     globals |-> {25}, mems |-> {m \in MemReadings : m.used = m.total /\ m.available = 0},
     procs |-> {42}, times |-> {TS_2023, TS_HOUR}, cores |-> {None, Some(1), Some(2)}]

\* What the probe may report for a single CPU where the memory figures, the
\* process count and the CPU usage vary.
UMemory ==
    [idents |-> {1}, counts |-> {1}, usages |-> {10, 90}, freqs |-> {3000},
     globals |-> {25, 75}, mems |-> MemReadings, procs |-> {41, 42},
     times |-> {TS_HOUR}, cores |-> {Some(1)}]

\* What the probe may report where the CPU count and the per-CPU usage and
\* frequency vary and nothing else does.
UVolatile ==
    [idents |-> {1}, counts |-> 0..MaxCpus, usages |-> {10, 90}, freqs |-> {2000, 3000},
     globals |-> {25},
     mems |-> {m \in MemReadings : m.total = 1 /\ m.used = 1 /\ m.available = 0},
     procs |-> {42}, times |-> {TS_HOUR}, cores |-> {Some(1)}]

\* What the probe may report where only the clock readings vary.
UTime ==
    [idents |-> {1}, counts |-> {1}, usages |-> {50}, freqs |-> {3000},
     globals |-> {25}, mems |-> {m \in MemReadings : m.total = 1 /\ m.used = 1 /\ m.available = 0},
     procs |-> {42},
     times |-> {TS_ZERO, TS_HOUR, TS_2023, TS_MAX_SECS, TS_PAST_MAX, TS_I64_MAX,
                TS_I64_MIN, TS_MIN_SECS, TS_MINUS_ONE},
     cores |-> {Some(1)}]

CpuLists(U) ==
    UNION {{[i \in 1..n |-> RawCpu(g, i, us[i], fs[i])] :
                g \in U.idents, us \in [1..n -> U.usages], fs \in [1..n -> U.freqs]} :
            n \in U.counts}

Systems(U) ==
    {[memory |-> m, processes |-> p, cpus |-> c, global_cpu_usage |-> g] :
        m \in U.mems, p \in U.procs, c \in CpuLists(U), g \in U.globals}

\* sysinfo::System::new(): nothing queried yet.
System_new ==
    [memory |-> [total |-> 0, used |-> 0, available |-> 0], processes |-> 0,
     cpus |-> <<>>, global_cpu_usage |-> 0]

\* sysinfo::System::new_all(): every category read from the machine.
new_all(U) == Systems(U)

\* System::refresh_all(): every category is read again.
refresh_all(U, sys) == Systems(U)

\* System::refresh_cpu_all(): the CPU list, usage and frequency are read again.
refresh_cpu_all(U, sys) ==
    {[sys EXCEPT !.cpus = c, !.global_cpu_usage = g] : c \in CpuLists(U), g \in U.globals}

\* System::refresh_cpu_usage(): the usage of each listed CPU and the global
\* usage are read again; nothing else is.
refresh_cpu_usage(U, sys) ==
    {[sys EXCEPT !.cpus = [i \in 1..Len(sys.cpus) |->
                              [sys.cpus[i] EXCEPT !.cpu_usage = us[i]]],
                 !.global_cpu_usage = g] :
        us \in [1..Len(sys.cpus) -> U.usages], g \in U.globals}

(***************************************************************************)
(* CPU record                                                              *)
(***************************************************************************)
CPU_default ==
    [processes |-> <<>>, cpu_usage |-> 0, core_count |-> 0, frequency |-> 0,
     name |-> "", vendor_id |-> "", brand |-> ""]

\* Mutant: a child is given a physical core count.
load_from_raw_counting_cores(raw_cpu) ==
    [CPU_default EXCEPT
        !.brand = raw_cpu.brand,
        !.core_count = 1,
        !.cpu_usage = raw_cpu.cpu_usage,
        !.frequency = raw_cpu.frequency,
        !.name = raw_cpu.name,
        !.vendor_id = raw_cpu.vendor_id]

load_from_raw(raw_cpu) ==
    [CPU_default EXCEPT
        !.brand = raw_cpu.brand,
        !.core_count = 0,
        !.cpu_usage = raw_cpu.cpu_usage,
        !.processes = <<>>,
        !.frequency = raw_cpu.frequency,
        !.name = raw_cpu.name,
        !.vendor_id = raw_cpu.vendor_id]

\* Mutant: an empty CPU list is tolerated, the load ends with no child.
load_cpu_info_lenient(c, sys, physical_core_count) ==
    [panicked |-> FALSE,
     cpu |-> [c EXCEPT
                !.core_count = unwrap_or(physical_core_count, 0),
                !.processes = [i \in 1..Len(sys.cpus) |-> load_from_raw(sys.cpus[i])]]]

\* fn load_cpu_info, after its refresh_cpu_all: `cpus()[0]` panics on an empty
\* list before any CPU field is written.
load_cpu_info(c, sys, physical_core_count) ==
    IF Len(sys.cpus) = 0
    THEN [panicked |-> TRUE, cpu |-> c]
    ELSE LET raw_cpu == sys.cpus[1] IN
         [panicked |-> FALSE,
          cpu |-> [c EXCEPT
                    !.brand = raw_cpu.brand,
                    !.core_count = unwrap_or(physical_core_count, 0),
                    !.cpu_usage = raw_cpu.cpu_usage,
                    !.frequency = raw_cpu.frequency,
                    !.name = raw_cpu.name,
                    !.vendor_id = raw_cpu.vendor_id,
                    !.processes = [i \in 1..Len(sys.cpus) |-> load_from_raw(sys.cpus[i])]]]

\* Mutant: the saved child is rebuilt from the probe's CPU, identity included.
reload_cpu_core_rebuilding(processes, index, core) ==
    IF index <= Len(processes)
    THEN [processes EXCEPT ![index] = load_from_raw(core)]
    ELSE processes

\* Mutant: the frequency of the saved child is forgotten.
reload_cpu_core_usage_only(processes, index, core) ==
    IF index <= Len(processes)
    THEN [processes EXCEPT ![index] = [@ EXCEPT !.cpu_usage = core.cpu_usage]]
    ELSE processes

\* The body of the loop of reload_cpu_cores for one (index, core).
reload_cpu_core(processes, index, core) ==
    IF index <= Len(processes)
    THEN [processes EXCEPT ![index] = [@ EXCEPT !.cpu_usage = core.cpu_usage,
                                                !.frequency = core.frequency]]
    ELSE processes

RECURSIVE reload_cpu_cores_from(_, _, _)
reload_cpu_cores_from(processes, cores, index) ==
    IF index > Len(cores)
    THEN processes
    ELSE reload_cpu_cores_from(reload_cpu_core(processes, index, cores[index]), cores, index + 1)

\* Mutant: the children are collected anew, one per CPU the probe lists.
reload_cpu_cores_collecting(c, sys) ==
    [c EXCEPT !.processes =
        [i \in 1..Len(sys.cpus) |->
            IF i <= Len(c.processes)
            THEN [c.processes[i] EXCEPT !.cpu_usage = sys.cpus[i].cpu_usage,
                                        !.frequency = sys.cpus[i].frequency]
            ELSE load_from_raw(sys.cpus[i])]]

\* fn reload_cpu_cores
reload_cpu_cores(c, sys) ==
    [c EXCEPT !.processes = reload_cpu_cores_from(c.processes, sys.cpus, 1)]

\* Mutant: the first logical CPU's usage is taken for the global usage.
store_first_cpu_usage(c, sys) ==
    [c EXCEPT !.cpu_usage = IF Len(sys.cpus) > 0 THEN sys.cpus[1].cpu_usage
                                                 ELSE sys.global_cpu_usage]

\* The end of get_cpu_usage: the global usage is stored and returned.
store_cpu_usage(c, sys) == [c EXCEPT !.cpu_usage = sys.global_cpu_usage]

\* Mutant: an empty CPU list is skipped in silence.
reload_cpu_info_skipping(c, sys) ==
    IF Len(sys.cpus) = 0
    THEN [panicked |-> FALSE, cpu |-> c]
    ELSE [panicked |-> FALSE,
          cpu |-> reload_cpu_cores([c EXCEPT !.frequency = sys.cpus[1].frequency], sys)]

\* fn reload_cpu_info after its call of get_cpu_usage: `get(0).unwrap()`
\* panics on an empty list before the frequency is written.
reload_cpu_info(c, sys) ==
    IF Len(sys.cpus) = 0
    THEN [panicked |-> TRUE, cpu |-> c]
    ELSE LET raw_cpu == sys.cpus[1] IN
         [panicked |-> FALSE,
          cpu |-> reload_cpu_cores([c EXCEPT !.frequency = raw_cpu.frequency], sys)]

(***************************************************************************)
(* Time accessors                                                          *)
(***************************************************************************)
\* `x as i64`: the same 64 bits, read as two's complement.
as_i64(x) == [bits |-> x, negative |-> x[1] >= 32768]

\* Mutant: only a positive epoch is taken for an instant.
from_timestamp_positive_only(secs) ==
    IF ~secs.negative /\ secs.bits # TS_ZERO /\ LexLE(secs.bits, TS_MAX_SECS)
    THEN Some([utc |-> secs])
    ELSE None

\* chrono DateTime::from_timestamp(secs, 0): None outside the dates chrono
\* represents, -262143-01-01 to 262142-12-31.
from_timestamp(secs) ==
    IF \/ ~secs.negative /\ LexLE(secs.bits, TS_MAX_SECS)
       \/ secs.negative /\ LexLE(TS_MIN_SECS, secs.bits)
    THEN Some([utc |-> secs])
    ELSE None

\* DateTime<Utc>::naive_local(): the civil time at offset zero.
naive_local(utc) == [naive |-> utc.utc]

get_uptime(up) ==
    LET time == from_timestamp(as_i64(up)) IN
    IF time.kind = "some" THEN Some(naive_local(time.val)) ELSE None

get_boot_time(bt) ==
    LET time == from_timestamp(as_i64(bt)) IN
    IF time.kind = "some" THEN Some(naive_local(time.val)) ELSE None

(***************************************************************************)
(* Operations                                                              *)
(***************************************************************************)
\* SysResources::new()
Init ==
    /\ available_memory = 0
    /\ used_memory = 0
    /\ total_memory = 0
    /\ boot_time = TS_ZERO
    /\ uptime = TS_ZERO
    /\ cpu = CPU_default
    /\ num_of_processes = 0
    /\ system = System_new
    /\ status = "unloaded"
    /\ pc = "idle"
    /\ op = "new"
    /\ calls = <<>>
    /\ ret = Unit

\* load(), up to its call of load_cpu_info.
Load(U) ==
    /\ status # "panicked"
    /\ pc = "idle"
    /\ \E s1 \in new_all(U), bt \in U.times, up \in U.times :
         /\ system' = s1
         /\ available_memory' = s1.memory.available
         /\ used_memory' = s1.memory.used
         /\ boot_time' = bt
         /\ uptime' = up
         /\ num_of_processes' = s1.processes
         /\ total_memory' = s1.memory.total
    /\ pc' = "load_cpu_info"
    /\ op' = "load"
    /\ calls' = <<"new_all">>
    /\ ret' = Unit
    /\ UNCHANGED <<cpu, status>>

\* load_cpu_info(): called by the user, or by load, which is complete when
\* it returns.
LoadCpuInfo(U) ==
    /\ status # "panicked"
    /\ pc \in {"idle", "load_cpu_info"}
    /\ \E s \in refresh_cpu_all(U, system), pcc \in U.cores :
         LET r == load_cpu_info(cpu, s, pcc) IN
         /\ system' = s
         /\ cpu' = r.cpu
         /\ status' = IF r.panicked THEN "panicked"
                      ELSE IF pc = "load_cpu_info" THEN "loaded" ELSE status
    /\ pc' = "idle"
    /\ op' = IF pc = "idle" THEN "load_cpu_info" ELSE op
    /\ calls' = (IF pc = "idle" THEN <<>> ELSE calls) \o <<"refresh_cpu_all">>
    /\ ret' = Unit
    /\ UNCHANGED <<available_memory, used_memory, total_memory, boot_time, uptime,
                   num_of_processes>>

\* Mutant: the memory figures are read before the refresh.
Reload_reading_before_refresh(U) ==
    /\ status # "panicked"
    /\ pc = "idle"
    /\ \E s1 \in refresh_all(U, system), up \in U.times :
         /\ system' = s1
         /\ uptime' = up
    /\ available_memory' = system.memory.available
    /\ used_memory' = system.memory.used
    /\ num_of_processes' = system.processes
    /\ pc' = "reload_cpu_info"
    /\ op' = "reload"
    /\ calls' = <<"refresh_all">>
    /\ ret' = Unit
    /\ UNCHANGED <<total_memory, boot_time, cpu, status>>

\* reload(), up to its call of reload_cpu_info.
Reload(U) ==
    /\ status # "panicked"
    /\ pc = "idle"
    /\ \E s1 \in refresh_all(U, system), up \in U.times :
         /\ system' = s1
         /\ uptime' = up
         /\ available_memory' = s1.memory.available
         /\ used_memory' = s1.memory.used
         /\ num_of_processes' = s1.processes
    /\ pc' = "reload_cpu_info"
    /\ op' = "reload"
    /\ calls' = <<"refresh_all">>
    /\ ret' = Unit
    /\ UNCHANGED <<total_memory, boot_time, cpu, status>>

\* Mutant: the sampler refreshes every category, not the CPU usage alone.
GetCpuUsage_refreshing_all(U) ==
    /\ status # "panicked"
    /\ pc \in {"idle", "reload_cpu_info"}
    /\ \E s \in refresh_all(U, system) : system' = s
    /\ pc' = "sleep"
    /\ op' = IF pc = "idle" THEN "get_cpu_usage" ELSE op
    /\ calls' = (IF pc = "idle" THEN <<>> ELSE calls) \o <<"refresh_cpu_usage", "sleep">>
    /\ ret' = Unit
    /\ UNCHANGED <<snapshot, status>>

\* get_cpu_usage(), up to its sleep: called by the user, or by reload_cpu_info.
GetCpuUsage(U) ==
    /\ status # "panicked"
    /\ pc \in {"idle", "reload_cpu_info"}
    /\ \E s \in refresh_cpu_usage(U, system) : system' = s
    /\ pc' = "sleep"
    /\ op' = IF pc = "idle" THEN "get_cpu_usage" ELSE op
    /\ calls' = (IF pc = "idle" THEN <<>> ELSE calls) \o <<"refresh_cpu_usage", "sleep">>
    /\ ret' = Unit
    /\ UNCHANGED <<snapshot, status>>

\* get_cpu_usage() from the end of its sleep and, inside reload, the rest of
\* reload_cpu_info.
Wake(U) ==
    /\ pc = "sleep"
    /\ \E s \in refresh_cpu_usage(U, system) :
         LET sampled == store_cpu_usage(cpu, s)
             r == IF op = "reload" THEN reload_cpu_info(sampled, s)
                                   ELSE [panicked |-> FALSE, cpu |-> sampled] IN
         /\ system' = s
         /\ cpu' = r.cpu
         /\ status' = IF r.panicked THEN "panicked" ELSE status
         /\ ret' = IF op = "reload" THEN Unit ELSE F32(sampled.cpu_usage)
    /\ pc' = "idle"
    /\ calls' = calls \o <<"refresh_cpu_usage", "global_cpu_usage">>
    /\ UNCHANGED <<available_memory, used_memory, total_memory, boot_time, uptime,
                   num_of_processes, op>>

GetUptime ==
    /\ status # "panicked"
    /\ pc = "idle"
    /\ ret' = get_uptime(uptime)
    /\ op' = "get_uptime"
    /\ calls' = <<>>
    /\ UNCHANGED <<snapshot, system, status, pc>>

GetBootTime ==
    /\ status # "panicked"
    /\ pc = "idle"
    /\ ret' = get_boot_time(boot_time)
    /\ op' = "get_boot_time"
    /\ calls' = <<>>
    /\ UNCHANGED <<snapshot, system, status, pc>>

Next == Load(UStatic) \/ LoadCpuInfo(UStatic) \/ Reload(UStatic) \/ GetCpuUsage(UStatic) \/ Wake(UStatic)
Spec == Init /\ [][Next]_vars

NextVolatile ==
    Load(UVolatile) \/ LoadCpuInfo(UVolatile) \/ Reload(UVolatile) \/ GetCpuUsage(UVolatile) \/ Wake(UVolatile)
SpecVolatile == Init /\ [][NextVolatile]_vars

NextMemory ==
    Load(UMemory) \/ LoadCpuInfo(UMemory) \/ Reload(UMemory) \/ GetCpuUsage(UMemory) \/ Wake(UMemory)
SpecMemory == Init /\ [][NextMemory]_vars

NextTime ==
    Load(UTime) \/ LoadCpuInfo(UTime) \/ Reload(UTime) \/ GetCpuUsage(UTime) \/ Wake(UTime) \/ GetUptime \/ GetBootTime
SpecTime == Init /\ [][NextTime]_vars

(***************************************************************************)
(* Properties                                                              *)
(***************************************************************************)
ReloadDone == op = "reload" /\ pc = "idle"
SampleDone == op = "get_cpu_usage" /\ pc = "idle"
InReload == op = "reload" /\ pc # "idle"

Identity(c) == <<c.name, c.vendor_id, c.brand>>
Figures(c) == <<c.cpu_usage, c.frequency>>

\* Everything the load writes and the reload is said to leave alone.
Frozen ==
    <<cpu.brand, cpu.vendor_id, cpu.name, cpu.core_count, total_memory, boot_time,
      [i \in 1..Len(cpu.processes) |-> Identity(cpu.processes[i])]>>

ChildFigures == [i \in 1..Len(cpu.processes) |-> Figures(cpu.processes[i])]

\* C1: no step of a reload changes cpu.brand, cpu.vendor_id, cpu.name,
\* cpu.core_count, total_memory, boot_time or any child's name, vendor_id or
\* brand, whatever the probe reports for them at that time.
C1_ReloadKeepsIdentity == [][op' = "reload" => Frozen' = Frozen]_vars

\* A reload has completed on a probe that reports another identity and
\* another installed memory than the load saw.
C1_Witness ==
    /\ ReloadDone /\ status = "loaded"
    /\ Len(system.cpus) > 0
    /\ system.cpus[1].brand # cpu.brand
    /\ system.cpus[1].name # cpu.processes[1].name
    /\ system.memory.total # total_memory

\* C2: no step of a reload changes the number of children, whatever number
\* of logical CPUs the probe lists.
C2_ReloadKeepsChildCount ==
    [][op' = "reload" => Len(cpu'.processes) = Len(cpu.processes)]_vars

\* A reload has completed on a probe that lists more CPUs than were loaded.
C2_Witness ==
    /\ ReloadDone /\ status = "loaded"
    /\ Len(system.cpus) > Len(cpu.processes)

\* C3: once loaded, the aggregate has at least one child, and every child has
\* no children of its own and a core_count of 0.
C3_ChildrenAreLeaves ==
    status = "loaded" =>
        /\ Len(cpu.processes) >= 1
        /\ \A i \in 1..Len(cpu.processes) :
              /\ cpu.processes[i].processes = <<>>
              /\ cpu.processes[i].core_count = 0

\* A usage sample has completed on a loaded snapshot with several children.
C3_Witness ==
    /\ SampleDone /\ status = "loaded"
    /\ Len(cpu.processes) > 1
    /\ cpu.core_count > 0

LoadDone == op = "load" /\ pc = "idle"

\* C5: a load on a probe that lists no CPU panics, the step that meets the
\* empty list writes no CPU field, and a loaded snapshot always has a child.
C5_LoadFailsOnEmptyCpuList ==
    /\ []((LoadDone /\ Len(system.cpus) = 0) => status = "panicked")
    /\ [](status = "loaded" => Len(cpu.processes) >= 1)
    /\ [][(op' = "load" /\ pc' = "idle" /\ Len(system'.cpus) = 0) => cpu' = cpu]_vars

\* The load has met an empty CPU list.
C5_Witness == LoadDone /\ Len(system.cpus) = 0 /\ status = "panicked"

\* C8 as claimed: once loaded, total_memory >= used_memory and
\* total_memory >= available_memory, when every reading of the probe has
\* total >= used and total >= available.
C8_Original ==
    status = "loaded" =>
        (total_memory >= used_memory /\ total_memory >= available_memory)

\* C8 amended: once loaded, total_memory >= used_memory and total_memory >=
\* available_memory whenever the total of the probe's latest reading is the
\* total that was loaded.
C8_TotalBoundsMemoryWhileTotalIsStable ==
    (status = "loaded" /\ system.memory.total = total_memory) =>
        (total_memory >= used_memory /\ total_memory >= available_memory)

\* A reload has re-read the memory in use from a probe with the loaded total.
C8_Witness ==
    /\ ReloadDone /\ status = "loaded"
    /\ system.memory.total = total_memory
    /\ used_memory = total_memory
    /\ available_memory < total_memory

\* i64 values the stored u64 can be cast to that are negative or zero.
NegativeOrZero(x) == as_i64(x).negative \/ x = TS_ZERO

\* C9 as claimed: a stored boot_time or uptime that is negative or zero makes
\* its accessor return None.
C9_Original ==
    /\ (op = "get_boot_time" /\ NegativeOrZero(boot_time)) => ret = None
    /\ (op = "get_uptime" /\ NegativeOrZero(uptime)) => ret = None

InsideChronoRange == {TS_ZERO, TS_HOUR, TS_2023, TS_MINUS_ONE}
OutsideChronoRange == {TS_I64_MAX, TS_I64_MIN}

\* C9 amended: the accessor returns None when the stored value, cast to i64,
\* is outside the instants chrono represents (i64::MAX, i64::MIN); zero, and
\* a value that casts to -1, return an instant.
C9_AbsentOutsideChronoRange ==
    /\ op = "get_boot_time" =>
          /\ boot_time \in OutsideChronoRange => ret = None
          /\ boot_time \in InsideChronoRange => ret = Some([naive |-> as_i64(boot_time)])
    /\ op = "get_uptime" =>
          /\ uptime \in OutsideChronoRange => ret = None
          /\ uptime \in InsideChronoRange => ret = Some([naive |-> as_i64(uptime)])

\* get_boot_time was called with a zero boot_time and returned an instant.
C9_Witness == op = "get_boot_time" /\ boot_time = TS_ZERO /\ ret.kind = "some"

\* C4 as claimed: a reload that finds no CPU completes without failing.
C4_Original == (ReloadDone /\ Len(system.cpus) = 0) => status = "loaded"

\* C4 amended: a reload that finds no CPU panics at the read of the first
\* CPU; no step of it changes the aggregate frequency or any child's
\* cpu_usage or frequency.
C4_ReloadPanicsOnEmptyCpuList ==
    /\ []((ReloadDone /\ Len(system.cpus) = 0) => status = "panicked")
    /\ [][(op' = "reload" /\ Len(system'.cpus) = 0) =>
            (cpu'.frequency = cpu.frequency /\ ChildFigures' = ChildFigures)]_vars

\* A reload has panicked on an empty CPU list, with children loaded.
C4_Witness ==
    /\ ReloadDone /\ status = "panicked"
    /\ Len(system.cpus) = 0
    /\ Len(cpu.processes) > 0

\* C6 as claimed: inside a reload, once the refresh at its start is done and
\* fields are being written, the probe is not refreshed again.
C6_Original == [][InReload => system' = system]_vars

Frequencies(sys) == [i \in 1..Len(sys.cpus) |-> sys.cpus[i].frequency]

\* C6 amended: a reload refreshes every category once at its start, and its
\* memory figures, process count and frequencies are those of that refresh;
\* the CPU usage is refreshed twice more by the sampler, and the aggregate
\* and per-child cpu_usage are those of the last of these refreshes.
C6_OneBarrierButUsageResampled ==
    /\ []((ReloadDone /\ status = "loaded") =>
            /\ calls = <<"refresh_all", "refresh_cpu_usage", "sleep",
                         "refresh_cpu_usage", "global_cpu_usage">>
            /\ available_memory = system.memory.available
            /\ used_memory = system.memory.used
            /\ num_of_processes = system.processes
            /\ cpu.frequency = system.cpus[1].frequency
            /\ cpu.cpu_usage = system.global_cpu_usage
            /\ \A i \in 1..Len(cpu.processes) :
                  i <= Len(system.cpus) =>
                      Figures(cpu.processes[i]) = Figures(system.cpus[i]))
    /\ [][InReload =>
            /\ system'.memory = system.memory
            /\ system'.processes = system.processes
            /\ Frequencies(system') = Frequencies(system)
            /\ <<uptime, available_memory, used_memory, num_of_processes>>' =
               <<uptime, available_memory, used_memory, num_of_processes>>]_vars

\* A reload has completed and has written a memory figure and a usage.
C6_Witness ==
    /\ ReloadDone /\ status = "loaded"
    /\ used_memory > 0
    /\ cpu.cpu_usage > 50
    /\ cpu.processes[1].cpu_usage < 50

\* C7: get_cpu_usage refreshes the CPU usage, sleeps, refreshes it again and
\* reads the global usage, in that order; it returns that usage, which is
\* cpu.cpu_usage afterwards; no step of it changes another field.
C7_SampleSteps ==
    /\ [](SampleDone =>
            /\ calls = <<"refresh_cpu_usage", "sleep", "refresh_cpu_usage",
                         "global_cpu_usage">>
            /\ ret = F32(cpu.cpu_usage)
            /\ cpu.cpu_usage = system.global_cpu_usage)
    /\ [][op' = "get_cpu_usage" =>
            /\ <<available_memory, used_memory, total_memory, boot_time, uptime,
                 num_of_processes>>' =
               <<available_memory, used_memory, total_memory, boot_time, uptime,
                 num_of_processes>>
            /\ [cpu' EXCEPT !.cpu_usage = 0] = [cpu EXCEPT !.cpu_usage = 0]]_vars

\* A sample has returned a global usage that is not the first CPU's usage.
C7_Witness ==
    /\ SampleDone /\ status = "loaded"
    /\ ret = F32(75)
    /\ system.cpus[1].cpu_usage # 75
    /\ cpu.processes[1].cpu_usage # system.cpus[1].cpu_usage

\* C10: after a reload, each child that the probe still lists has the
\* cpu_usage and frequency of the probe's CPU at its index, the aggregate
\* frequency is that of the probe's first CPU, and the aggregate cpu_usage is
\* the sampled global usage.
C10_ReloadCopiesFiguresByIndex ==
    (ReloadDone /\ status = "loaded") =>
        /\ \A i \in 1..Len(cpu.processes) :
              i <= Len(system.cpus) =>
                  /\ cpu.processes[i].cpu_usage = system.cpus[i].cpu_usage
                  /\ cpu.processes[i].frequency = system.cpus[i].frequency
        /\ cpu.frequency = system.cpus[1].frequency
        /\ cpu.cpu_usage = system.global_cpu_usage

\* A reload has updated two children to different figures, and the global
\* usage is not the first CPU's.
C10_Witness ==
    /\ ReloadDone /\ status = "loaded"
    /\ Len(cpu.processes) > 1 /\ Len(system.cpus) > 1
    /\ Figures(cpu.processes[1]) # Figures(cpu.processes[2])
    /\ cpu.cpu_usage # system.cpus[1].cpu_usage

====
